---- MODULE Spec2Model ----
(***************************************************************************)
(* mkpdf: walker.select_paths, walker.build_tree_description and           *)
(* merger.merge as a state machine over an immutable directory snapshot.   *)
(*                                                                         *)
(* A name or a text is a sequence of one-character strings, a path is the  *)
(* sequence of names from the traversal root (the root is <<RootName>>,    *)
(* its parent <<>>), a Python dict is a function on its keys.              *)
(***************************************************************************)
EXTENDS Integers, Sequences, FiniteSets, TLC

(***************************************************************************)
(* Bounds of the model.                                                    *)
(***************************************************************************)
\* a readable pdf holds 1..MaxPages pages
MaxPages == 2
\* str hashes are drawn from -HashBound..HashBound
HashBound == 2

(***************************************************************************)
(* Characters and strings.                                                 *)
(***************************************************************************)
\* the characters in use, in code-point order
Ascii == <<" ", ".", "/", "=", "B", "D", "Q", "T", "_", "a", "b", "c", "d", "e",
           "f", "g", "h", "j", "n", "p", "q", "r", "t", "x", "z">>

Ord(c) == CHOOSE i \in 1..Len(Ascii) : Ascii[i] = c

\* str.lower on one character
LowerChar(c) == CASE c = "B" -> "b" [] c = "D" -> "d" [] c = "Q" -> "q"
                  [] c = "T" -> "t" [] OTHER -> c

\* str.upper on one character
UpperChar(c) == CASE c = "b" -> "B" [] c = "d" -> "D" [] c = "q" -> "Q"
                  [] c = "t" -> "T" [] OTHER -> c

lower(s) == [i \in 1..Len(s) |-> LowerChar(s[i])]

\* s < t for Python strings (lexicographic by code point)
RECURSIVE StrLess(_, _)
StrLess(s, t) ==
    IF t = <<>> THEN FALSE
    ELSE IF s = <<>> THEN TRUE
    ELSE IF Ord(Head(s)) # Ord(Head(t)) THEN Ord(Head(s)) < Ord(Head(t))
    ELSE StrLess(Tail(s), Tail(t))

\* str.strip: leading and trailing whitespace removed
RECURSIVE lstrip(_)
lstrip(s) == IF s # <<>> /\ Head(s) = " " THEN lstrip(Tail(s)) ELSE s

RECURSIVE rstrip(_)
rstrip(s) ==
    IF s # <<>> /\ s[Len(s)] = " " THEN rstrip(SubSeq(s, 1, Len(s) - 1)) ELSE s

strip(s) == rstrip(lstrip(s))

startswith(s, p) == Len(p) <= Len(s) /\ SubSeq(s, 1, Len(p)) = p

\* str.rfind(".") (0-based, -1 when there is none) as a 1-based index, 0 for none
rfindDot(s) ==
    LET dots == {i \in 1..Len(s) : s[i] = "."}
    IN  IF dots = {} THEN 0 ELSE CHOOSE i \in dots : \A j \in dots : j <= i

(***************************************************************************)
(* pathlib.                                                                *)
(***************************************************************************)
name(path) == IF path = <<>> THEN <<>> ELSE path[Len(path)]

parent(path) == IF path = <<>> THEN <<>> ELSE SubSeq(path, 1, Len(path) - 1)

\* PurePath.suffix: from the last dot, unless it starts or ends the name
suffix(path) ==
    LET n == name(path)
        i == rfindDot(n)
    IN  IF 1 < i /\ i < Len(n) THEN SubSeq(n, i, Len(n)) ELSE <<>>

\* PurePath.stem
stem(path) ==
    LET n == name(path)
        i == rfindDot(n)
    IN  IF 1 < i /\ i < Len(n) THEN SubSeq(n, 1, i - 1) ELSE n

\* str(Path(*parts)) of a relative path: "." when there are no parts
RECURSIVE JoinParts(_)
JoinParts(parts) ==
    IF Len(parts) = 1 THEN parts[1]
    ELSE parts[1] \o <<"/">> \o JoinParts(Tail(parts))

PathStr(parts) == IF parts = <<>> THEN <<".">> ELSE JoinParts(parts)

(***************************************************************************)
(* re.search for the patterns in use: a pattern is a sequence of           *)
(* characters, "." matching any character and every other one itself.      *)
(***************************************************************************)
MatchAt(pattern, s, k) ==
    /\ k + Len(pattern) - 1 <= Len(s)
    /\ \A i \in 1..Len(pattern) :
          pattern[i] = "." \/ pattern[i] = s[k + i - 1]

re_search(pattern, s) == \E k \in 1..(Len(s) + 1) : MatchAt(pattern, s, k)

(***************************************************************************)
(* Generic sorting helpers (Python's sorted / list.sort are stable).       *)
(***************************************************************************)
\* a sequence of <<key, element>> pairs sorted by integer key, x inserted after
\* every pair whose key is not greater (stability)
RECURSIVE InsertByKey(_, _)
InsertByKey(x, sorted) ==
    IF sorted = <<>> THEN <<x>>
    ELSE IF x[1] < Head(sorted)[1] THEN <<x>> \o sorted
    ELSE <<Head(sorted)>> \o InsertByKey(x, Tail(sorted))

RECURSIVE StableSortPairs(_)
StableSortPairs(seq) ==
    IF seq = <<>> THEN <<>>
    ELSE InsertByKey(seq[Len(seq)], StableSortPairs(SubSeq(seq, 1, Len(seq) - 1)))

\* the same with string keys
RECURSIVE InsertByStr(_, _)
InsertByStr(x, sorted) ==
    IF sorted = <<>> THEN <<x>>
    ELSE IF StrLess(x[1], Head(sorted)[1]) THEN <<x>> \o sorted
    ELSE <<Head(sorted)>> \o InsertByStr(x, Tail(sorted))

RECURSIVE StableSortStrPairs(_)
StableSortStrPairs(seq) ==
    IF seq = <<>> THEN <<>>
    ELSE InsertByStr(seq[Len(seq)], StableSortStrPairs(SubSeq(seq, 1, Len(seq) - 1)))

Seconds(pairs) == [i \in 1..Len(pairs) |-> pairs[i][2]]

\* some enumeration of a finite set (the order os.scandir happens to give)
RECURSIVE SetToSeq(_)
SetToSeq(S) ==
    IF S = {} THEN <<>>
    ELSE LET x == CHOOSE y \in S : TRUE IN <<x>> \o SetToSeq(S \ {x})

Range(f) == {f[i] : i \in DOMAIN f}

\* the empty dict
EmptyDict == [k \in {} |-> k]

(***************************************************************************)
(* The directory snapshot and the command line: fixed during a behaviour.  *)
(***************************************************************************)
VARIABLES
    dirs,           \* paths that are directories
    files,          \* paths that are regular files (marker files excluded)
    dotIgnore,      \* directories holding an .ignore file
    dotOrder,       \* directory -> [ok, lines] of its .order file
    dotTitle,       \* directory -> [ok, text] of its .title file
    dotLabel,       \* directory -> [ok, lines] of its .label file
    pdfPages,       \* pdf file -> number of pages PdfReader finds in it
    corrupt,        \* files PdfReader / PIL cannot open
    includes,       \* --include patterns (<<>> for None)
    excludes,       \* --exclude patterns (<<>> for None)
    pretty_labels   \* -p

(***************************************************************************)
(* State of the compile.                                                   *)
(***************************************************************************)
VARIABLES
    pc,             \* position in cli.main / merger.merge
    hashSeed,       \* this process's str hash: lower-cased name -> int
    selection,      \* select_paths' result
    prevSelection,  \* <<the selection of the previous process>>, <<>> in the first
    tree,           \* build_tree_description's result, updated by merge
    idx,            \* position of merge's loop in tree (1-based)
    page_index,     \* merge's page cursor
    writerPages,    \* the writer's pages: <<source path, page number in it>>
    outline,        \* the writer's outline items: [title, page_number, parent]
    outlineRef,     \* per tree index: the item _add_outline returned, 0 for None
    parents,        \* merge's parents dict: folder path -> outline item, 0 for None
    tempfiles       \* merge's tempfiles: the images converted

fsVars == <<dirs, files, dotIgnore, dotOrder, dotTitle, dotLabel, pdfPages,
            corrupt, includes, excludes, pretty_labels>>

runVars == <<pc, hashSeed, selection, prevSelection, tree, idx,
             page_index, writerPages, outline, outlineRef, parents, tempfiles>>

vars == <<fsVars, runVars>>

RootName == <<"r">>

root == <<RootName>>

is_dir(path) == path \in dirs

is_file(path) == path \in files

iterdir(path) == {p \in dirs \cup files : p # <<>> /\ parent(p) = path}

(***************************************************************************)
(* walker.py                                                               *)
(***************************************************************************)
\* C3 mutant: only the defensive name test is left, the marker is not looked up
_should_ignore_NameOnly(path) == name(path) = <<".","i","g","n","o","r","e">>

_should_ignore(path) == path \in dotIgnore \/ name(path) = <<".","i","g","n","o","r","e">>

_match_filters(rel_parts, incs, excs) ==
    LET as_str == PathStr(rel_parts)
    IN  IF incs # <<>> /\ ~ \E i \in 1..Len(incs) : re_search(incs[i], as_str)
        THEN FALSE
        ELSE IF excs # <<>> /\ \E i \in 1..Len(excs) : re_search(excs[i], as_str)
        THEN FALSE
        ELSE TRUE

\* the stripped non-empty lines of a marker file, [] when it cannot be read
_load_dotfile_lines(file) ==
    IF ~file.ok THEN <<>>
    ELSE LET stripped == [i \in 1..Len(file.lines) |-> strip(file.lines[i])]
         IN  SelectSeq(stripped, LAMBDA l : l # <<>>)

ImgSuffixes == { <<".","j","p","g">>, <<".","j","p","e","g">>, <<".","p","n","g">>,
                 <<".","b","m","p">>, <<".","t","i","f","f">>, <<".","g","i","f">> }

_is_img(path) == lower(suffix(path)) \in ImgSuffixes

_is_pdf(path) == lower(suffix(path)) = <<".","p","d","f">>

_is_valid(path) == is_dir(path) \/ _is_pdf(path) \/ _is_img(path)

\* {name: i for i, name in enumerate(preferred)}: the last position wins
preferred_map(preferred) ==
    [n \in Range(preferred) |->
        (CHOOSE i \in 1..Len(preferred) :
            preferred[i] = n /\ \A j \in 1..Len(preferred) : preferred[j] = n => j <= i) - 1]

\* hash(s) of this process
hash(s) == hashSeed[s]

\* the key of children.sort at walker.py:34
OrderKey(p, pmap) ==
    IF name(p) \in DOMAIN pmap THEN pmap[name(p)]
    ELSE Cardinality(DOMAIN pmap) + hash(lower(name(p)))

\* walker.py:29-34: the children of a folder in visiting order
SortedChildren(current_path) ==
    LET listing == SetToSeq(iterdir(current_path))
        byName == Seconds(StableSortStrPairs(
                     [i \in 1..Len(listing) |-> <<lower(name(listing[i])), listing[i]>>]))
    IN  IF current_path \in DOMAIN dotOrder
        THEN LET pmap == preferred_map(_load_dotfile_lines(dotOrder[current_path]))
             IN  Seconds(StableSortPairs(
                     [i \in 1..Len(byName) |-> <<OrderKey(byName[i], pmap), byName[i]>>]))
        ELSE byName

IsDotName(n) == startswith(n, <<".">>)

RECURSIVE walk(_)
RECURSIVE walkChildren(_, _)
\* the for loop of walk over the (remaining) children
walkChildren(current_path, children) ==
    IF children = <<>> THEN <<>>
    ELSE LET child == Head(children)
             rest == walkChildren(current_path, Tail(children))
         IN  IF ~_is_valid(child) THEN rest
             ELSE IF IsDotName(name(child)) THEN rest
             ELSE IF is_dir(child) THEN walk(child) \o rest
             ELSE IF _match_filters(Tail(child), includes, excludes)
                  THEN <<child>> \o rest
             ELSE rest

\* what one call of walk appends to selection; rel_parts is Tail(current_path)
walk(current_path) ==
    IF _should_ignore(current_path) THEN <<>>
    ELSE IF ~_match_filters(Tail(current_path), includes, excludes) THEN <<>>
    ELSE <<current_path>> \o walkChildren(current_path, SortedChildren(current_path))

select_paths == walk(root)

\* the marker file of a folder in a dict of marker files, as Path.exists sees it
exists(markers, folder) == folder \in DOMAIN markers

_resolve_title(path) ==
    IF exists(dotTitle, path) /\ dotTitle[path].ok THEN strip(dotTitle[path].text)
    ELSE name(path)

\* 1-based position of the first "=" of a line, 0 when it has none
findEq(line) ==
    LET eqs == {i \in 1..Len(line) : line[i] = "="}
    IN  IF eqs = {} THEN 0 ELSE CHOOSE i \in eqs : \A j \in eqs : i <= j

\* the labels dict after the first k lines of the .label file
RECURSIVE LabelsUpTo(_, _)
LabelsUpTo(lines, k) ==
    IF k = 0 THEN EmptyDict
    ELSE LET before == LabelsUpTo(lines, k - 1)
             line == lines[k]
             e == findEq(line)
         IN  IF e = 0 THEN before
             ELSE LET key == strip(SubSeq(line, 1, e - 1))
                      value == strip(SubSeq(line, e + 1, Len(line)))
                  IN  [x \in DOMAIN before \cup {key} |->
                          IF x = key THEN value ELSE before[x]]

_resolve_labels(folder) ==
    IF exists(dotLabel, folder) /\ dotLabel[folder].ok
    THEN LabelsUpTo(dotLabel[folder].lines, Len(dotLabel[folder].lines))
    ELSE EmptyDict

\* dict[key] = value
Put(dict, key, value) ==
    [k \in DOMAIN dict \cup {key} |-> IF k = key THEN value ELSE dict[k]]

\* dict.get(key, default)
Get(dict, key, default) == IF key \in DOMAIN dict THEN dict[key] ELSE default

_describe_folder(path) ==
    LET desc == [type |-> "folder", path |-> path, title |-> _resolve_title(path),
                 labels |-> _resolve_labels(path)]
        children == iterdir(path)
        has_pdf == \E child \in children : is_file(child) /\ _is_pdf(child)
        has_img == \E child \in children : is_file(child) /\ _is_img(child)
    IN  IF has_img /\ ~has_pdf THEN Put(desc, "only_images", TRUE) ELSE desc

\* the description of a file, <<>> standing for None
_describe_file(path, folder) ==
    LET label == Get(folder.labels, name(path), <<>>)
        desc == IF label # <<>> THEN [path |-> path, label |-> label]
                ELSE [path |-> path]
    IN  IF _is_pdf(path) THEN Put(desc, "type", "pdf")
        ELSE IF _is_img(path) THEN Put(desc, "type", "img")
        ELSE <<>>

RECURSIVE DescribeAll(_, _)
\* the second loop of build_tree_description over the (remaining) paths
DescribeAll(paths, folders) ==
    IF paths = <<>> THEN <<>>
    ELSE LET path == Head(paths)
             rest == DescribeAll(Tail(paths), folders)
         IN  IF is_dir(path) THEN <<folders[path]>> \o rest
             ELSE LET desc == _describe_file(path, folders[parent(path)])
                  IN  IF desc # <<>> THEN <<desc>> \o rest ELSE rest

build_tree_description(paths) ==
    LET folders == [path \in {q \in Range(paths) : is_dir(q)} |-> _describe_folder(path)]
    IN  DescribeAll(paths, folders)

(***************************************************************************)
(* merger.py                                                               *)
(***************************************************************************)
\* len(PdfReader(path).pages), or the exception as FALSE
readable(path) == path \notin corrupt

\* the "pages" one item gets from _update_files_page_count
PageCount(item) ==
    IF item.type = "pdf" THEN (IF readable(item.path) THEN pdfPages[item.path] ELSE 0)
    ELSE 1

_update_files_page_count(t) ==
    [i \in 1..Len(t) |->
        IF t[i].type \notin {"pdf", "img"} THEN t[i]
        ELSE Put(t[i], "pages", PageCount(t[i]))]

\* the loop of _assign_folder_page_indices over reversed(t[1..k]) done down to
\* item k: <<the items from k on, last_valid_page>>
RECURSIVE AssignFrom(_, _)
AssignFrom(t, k) ==
    IF k > Len(t) THEN <<<<>>, 0>>
    ELSE LET later == AssignFrom(t, k + 1)
             last_valid_page == later[2]
             item == t[k]
         IN  IF "page" \in DOMAIN item /\ Get(item, "pages", 0) > 0
             THEN <<<<item>> \o later[1], item.page>>
             ELSE IF item.type = "folder"
             THEN <<<<Put(item, "page", last_valid_page)>> \o later[1], last_valid_page>>
             ELSE <<<<item>> \o later[1], last_valid_page>>

_assign_folder_page_indices(t) == AssignFrom(t, 1)[1]

\* the pages _insert_into_pdf adds to the writer for an item
InsertedPages(item) ==
    IF item.type = "pdf" /\ readable(item.path)
    THEN [k \in 1..pdfPages[item.path] |-> <<item.path, k>>]
    ELSE IF item.type = "img" /\ readable(item.path)
    THEN << <<item.path, 1>> >>
    ELSE <<>>

\* the temporary files _insert_into_pdf returns for an item (at most one)
InsertedTemp(item) ==
    IF item.type = "img" /\ readable(item.path) THEN <<item.path>> ELSE <<>>

\* str.capitalize
capitalize(s) ==
    [i \in 1..Len(s) |-> IF i = 1 THEN UpperChar(s[i]) ELSE LowerChar(s[i])]

_prettify_label(label) ==
    capitalize(strip([i \in 1..Len(label) |-> IF label[i] = "_" THEN " " ELSE label[i]]))

\* the label _add_outline gives the outline item
OutlineLabel(item) ==
    LET label == Get(item, "label", stem(item.path))
    IN  IF pretty_labels /\ "label" \notin DOMAIN item THEN _prettify_label(label)
        ELSE label

\* whether _add_outline reaches writer.add_outline_item for the item
WantsOutline(item) ==
    /\ "page" \in DOMAIN item
    /\ ~(item.type # "folder" /\ Get(item, "pages", 0) = 0)

\* C9 mutant: the flag is looked up on the item instead of its folder
SuppressedImage_OwnFlag(item, folders) ==
    item.type = "img" /\ Get(item, "only_images", FALSE)

\* whether merge's loop skips the outline of the item (the continue at line 51)
SuppressedImage(item, folders) ==
    item.type = "img" /\ Get(folders[parent(item.path)], "only_images", FALSE)

(***************************************************************************)
(* The snapshots and command lines explored.                               *)
(***************************************************************************)
A_PDF == <<RootName, <<"a",".","p","d","f">>>>
B_DIR == <<RootName, <<"B">>>>
C_JPG == <<RootName, <<"c",".","j","p","g">>>>
B_X_JPG == B_DIR \o <<<<"x",".","j","p","g">>>>
B_H_PDF == B_DIR \o <<<<".","h",".","p","d","f">>>>
B_D_DIR == B_DIR \o <<<<"D">>>>
B_D_E_PDF == B_D_DIR \o <<<<"e",".","p","d","f">>>>
B_D_N_TXT == B_D_DIR \o <<<<"n",".","t","x","t">>>>
Z_DIR == <<RootName, <<"z">>>>

\* the sets of files whose folders are all in ds
FileSets(candidates, ds) == SUBSET {f \in candidates : parent(f) \in ds}

\* every way to give the pdfs among fs a page count or make them unreadable,
\* and to make images unreadable
Contents(fs) ==
    {c \in [pages : [{f \in fs : _is_pdf(f)} -> 1..MaxPages], bad : SUBSET fs] :
        \A f \in c.bad : _is_pdf(f) => c.pages[f] = 1}

\* the lower-cased names the sort key of walker.py:34 hashes: the children a
\* folder's .order file does not list
HashedNames ==
    {lower(name(p)) : p \in {q \in dirs \cup files :
        /\ q # root
        /\ parent(q) \in DOMAIN dotOrder
        /\ name(q) \notin Range(_load_dotfile_lines(dotOrder[parent(q)]))}}

OrderFiles ==
    { EmptyDict,
      root :> [ok |-> TRUE, lines |-> << <<"B">> >>],
      root :> [ok |-> TRUE, lines |-> << <<"c",".","j","p","g">>, <<" ">>, <<" ","a",".","p","d","f">> >>],
      root :> [ok |-> TRUE, lines |-> << <<"z">>, <<"B">>, <<"z">> >>],
      B_DIR :> [ok |-> TRUE, lines |-> << <<"x",".","j","p","g">> >>],
      root :> [ok |-> FALSE, lines |-> <<>>] }

Patterns == { <<>>, << <<"B">> >>, << <<".">> >>, << <<"j","p","g">>, <<"D","/">> >> }

InitRun ==
    /\ pc = "start"
    /\ hashSeed = EmptyDict
    /\ selection = <<>>
    /\ prevSelection = <<>>
    /\ tree = <<>>
    /\ idx = 1
    /\ page_index = 0
    /\ writerPages = <<>>
    /\ outline = <<>>
    /\ outlineRef = <<>>
    /\ parents = EmptyDict
    /\ tempfiles = <<>>

\* snapshots for the traversal: markers, order hints and filters vary
InitWalk ==
    /\ dirs = {root, B_DIR, B_D_DIR}
    /\ files = {A_PDF, C_JPG, B_X_JPG, B_H_PDF, B_D_E_PDF, B_D_N_TXT}
    /\ dotIgnore \in SUBSET dirs
    /\ dotOrder \in OrderFiles
    /\ dotTitle = EmptyDict
    /\ dotLabel = EmptyDict
    /\ pdfPages = [f \in {g \in files : _is_pdf(g)} |-> 1]
    /\ corrupt = {}
    /\ includes \in Patterns
    /\ excludes \in Patterns
    /\ pretty_labels = FALSE
    /\ InitRun

TitleFiles ==
    { EmptyDict,
      B_DIR :> [ok |-> TRUE, text |-> <<" ","T","_","q"," ">>],
      B_DIR :> [ok |-> FALSE, text |-> <<>>] }

LabelFiles ==
    { EmptyDict,
      root :> [ok |-> TRUE, lines |-> << <<"n","a">>, <<"a",".","p","d","f"," ","="," ","Q","=","a">> >>] }

\* snapshots for the merge: the tree, the contents and the titles vary
InitMerge ==
    /\ dirs \in {{root, B_DIR}, {root, B_DIR, B_D_DIR}, {root, B_DIR, B_D_DIR, Z_DIR}}
    /\ files \in FileSets({A_PDF, C_JPG, B_X_JPG, B_H_PDF, B_D_E_PDF}, dirs)
    /\ dotIgnore = {}
    /\ dotOrder = EmptyDict
    /\ dotTitle \in TitleFiles
    /\ dotLabel \in LabelFiles
    /\ \E c \in Contents(files \ {B_H_PDF}) :
          /\ pdfPages = [f \in {g \in files : _is_pdf(g)} |->
                            IF f \in DOMAIN c.pages THEN c.pages[f] ELSE 1]
          /\ corrupt = c.bad
    /\ includes = <<>>
    /\ excludes = <<>>
    /\ pretty_labels \in BOOLEAN
    /\ InitRun

(***************************************************************************)
(* The steps of a compile (cli.main).                                      *)
(***************************************************************************)
\* the interpreter starts: str hashing is seeded at random (PYTHONHASHSEED)
StartProcess ==
    /\ pc = "start"
    /\ hashSeed' \in [HashedNames -> (0 - HashBound)..HashBound]
    /\ pc' = "select"
    /\ UNCHANGED <<selection, prevSelection, tree, idx, page_index, writerPages,
                   outline, outlineRef, parents, tempfiles>>
    /\ UNCHANGED fsVars

Select ==
    /\ pc = "select"
    /\ selection' = select_paths
    /\ pc' = "describe"
    /\ UNCHANGED <<hashSeed, prevSelection, tree, idx, page_index, writerPages,
                   outline, outlineRef, parents, tempfiles>>
    /\ UNCHANGED fsVars

BuildTree ==
    /\ pc = "describe"
    /\ tree' = build_tree_description(selection)
    /\ pc' = "count"
    /\ UNCHANGED <<hashSeed, selection, prevSelection, idx, page_index, writerPages,
                   outline, outlineRef, parents, tempfiles>>
    /\ UNCHANGED fsVars

UpdateFilesPageCount ==
    /\ pc = "count"
    /\ tree' = _update_files_page_count(tree)
    /\ pc' = "assign"
    /\ UNCHANGED <<hashSeed, selection, prevSelection, idx, page_index, writerPages,
                   outline, outlineRef, parents, tempfiles>>
    /\ UNCHANGED fsVars

\* merger.py:29-36
AssignFolderPageIndices ==
    /\ pc = "assign"
    /\ tree' = _assign_folder_page_indices(tree)
    /\ writerPages' = <<>>
    /\ outline' = <<>>
    /\ outlineRef' = [i \in 1..Len(tree) |-> 0]
    /\ tempfiles' = <<>>
    /\ parents' = EmptyDict
    /\ page_index' = 0
    /\ idx' = 1
    /\ pc' = "merge"
    /\ UNCHANGED <<hashSeed, selection, prevSelection>>
    /\ UNCHANGED fsVars

\* C10 mutant: the parent is not passed on to the writer
_add_outline_NoParent(items, item, parentRef) ==
    IF ~WantsOutline(item) THEN <<items, 0>>
    ELSE <<Append(items, [title |-> OutlineLabel(item), page_number |-> item.page,
                          parent |-> 0]),
           Len(items) + 1>>

\* _add_outline(writer, item, parent, ...): <<the writer's outline after the
\* call, the item returned (0 for None)>>.  writer.add_outline_item is handed a
\* str title, an int page number and a parent it returned itself (or None);
\* it adds the item and returns it, so the except branch of merger.py:137-139
\* is not taken.
_add_outline(items, item, parentRef) ==
    IF ~WantsOutline(item) THEN <<items, 0>>
    ELSE <<Append(items, [title |-> OutlineLabel(item), page_number |-> item.page,
                          parent |-> parentRef]),
           Len(items) + 1>>

\* C5 mutant: the start page is taken after the cursor has advanced
SetPage_AfterAdvance(item, cursor) == Put(item, "page", cursor + Get(item, "pages", 0))

\* C6 mutant: the loop leaves a folder the page the pre-pass gave it
SetPage_FilesOnly(item, cursor) ==
    IF item.type = "folder" THEN item ELSE Put(item, "page", cursor)

\* item["page"] = page_index (merger.py:46)
SetPage(item, cursor) == Put(item, "page", cursor)

\* one iteration of the loop of merge (merger.py:38-55)
MergeStep ==
    /\ pc = "merge"
    /\ idx <= Len(tree)
    /\ LET folders == [q \in {tree[i].path : i \in {j \in 1..Len(tree) : tree[j].type = "folder"}} |->
                          tree[CHOOSE i \in 1..Len(tree) : tree[i].path = q]]
           num_pages == Get(tree[idx], "pages", 0)
           item == SetPage(tree[idx], page_index)
           added == _add_outline(outline, item, Get(parents, parent(item.path), 0))
       IN  /\ writerPages' = writerPages \o InsertedPages(tree[idx])
           /\ tempfiles' = tempfiles \o InsertedTemp(tree[idx])
           /\ tree' = [tree EXCEPT ![idx] = item]
           /\ page_index' = page_index + num_pages
           /\ IF SuppressedImage(item, folders)
              THEN UNCHANGED <<outline, outlineRef, parents>>
              ELSE /\ outline' = added[1]
                   /\ outlineRef' = [outlineRef EXCEPT ![idx] = added[2]]
                   /\ parents' = IF item.type = "folder"
                                 THEN Put(parents, item.path, added[2])
                                 ELSE parents
    /\ idx' = idx + 1
    /\ UNCHANGED <<pc, hashSeed, selection, prevSelection>>
    /\ UNCHANGED fsVars

\* merge returns; main writes the output and clears the temporary files
Finish ==
    /\ pc = "merge"
    /\ idx > Len(tree)
    /\ tempfiles' = <<>>
    /\ pc' = "done"
    /\ UNCHANGED <<hashSeed, selection, prevSelection, tree, idx, page_index,
                   writerPages, outline, outlineRef, parents>>
    /\ UNCHANGED fsVars

\* mkpdf is run again on the same snapshot
Rerun ==
    /\ pc = "done"
    /\ prevSelection' = <<selection>>
    /\ pc' = "start"
    /\ hashSeed' = EmptyDict
    /\ selection' = <<>>
    /\ tree' = <<>>
    /\ idx' = 1
    /\ page_index' = 0
    /\ writerPages' = <<>>
    /\ outline' = <<>>
    /\ outlineRef' = <<>>
    /\ parents' = EmptyDict
    /\ tempfiles' = <<>>
    /\ UNCHANGED fsVars

Next ==
    \/ StartProcess
    \/ Select
    \/ BuildTree
    \/ UpdateFilesPageCount
    \/ AssignFolderPageIndices
    \/ MergeStep
    \/ Finish
    \/ Rerun

Spec == InitMerge /\ [][Next]_vars

SpecWalk == InitWalk /\ [][Next]_vars

(***************************************************************************)
(* Vocabulary of the properties.                                           *)
(***************************************************************************)
\* select_paths has returned in this process
Selected == pc \notin {"start", "select"}

\* merge's loop has processed entry i
Processed(i) == pc \in {"merge", "done"} /\ i \in 1..Len(tree) /\ i < idx

Merged == pc = "done"

IsPrefix(a, b) == Len(a) <= Len(b) /\ SubSeq(b, 1, Len(a)) = a

\* position of a path in the selection
Pos(path) == CHOOSE i \in 1..Len(selection) : selection[i] = path

\* position of the entry of a path in tree
EntryOf(path) == CHOOSE i \in 1..Len(tree) : tree[i].path = path

\* the recorded page count of an entry, folders counting 0
Pages(i) == IF "pages" \in DOMAIN tree[i] THEN tree[i].pages ELSE 0

RECURSIVE PagesBefore(_)
\* the sum of the page counts of the entries before entry i
PagesBefore(i) == IF i <= 1 THEN 0 ELSE PagesBefore(i - 1) + Pages(i - 1)

\* the pages in the writer that come from the entries in a set of indices
WrittenFrom(indices) ==
    Cardinality({k \in 1..Len(writerPages) :
                    \E m \in indices : writerPages[k][1] = tree[m].path})

\* the entries of the subtree of folder entry i, itself included
Subtree(i) == {j \in 1..Len(tree) : IsPrefix(tree[i].path, tree[j].path)}

(***************************************************************************)
(* C1  Determinism of select_paths: a second run over the same snapshot,   *)
(* control files and patterns, in another process (another str hash),      *)
(* returns the sequence of paths the first run returned.                   *)
(***************************************************************************)
C1_Determinism ==
    (Selected /\ prevSelection # <<>>) => selection = prevSelection[1]

(***************************************************************************)
(* C2  Order-hint precedence: in a selected folder with an .order file,    *)
(* a selected child the hints list comes before every selected child they  *)
(* do not list, two listed children come in hint order, and two unlisted   *)
(* children come in case-insensitive name order.                           *)
(***************************************************************************)
C2_OrderHintPrecedence ==
    Selected =>
        \A F \in Range(selection) \cap DOMAIN dotOrder :
            LET hints == _load_dotfile_lines(dotOrder[F])
                kids == {p \in Range(selection) : p # root /\ parent(p) = F}
                listed(p) == \E i \in 1..Len(hints) : hints[i] = name(p)
                hintPos(p) == CHOOSE i \in 1..Len(hints) :
                                 hints[i] = name(p) /\ \A j \in 1..(i - 1) : hints[j] # name(p)
            IN  \A p, q \in kids :
                   /\ (listed(p) /\ ~listed(q)) => Pos(p) < Pos(q)
                   /\ (listed(p) /\ listed(q) /\ hintPos(p) < hintPos(q)) => Pos(p) < Pos(q)
                   /\ (~listed(p) /\ ~listed(q) /\ StrLess(lower(name(p)), lower(name(q))))
                         => Pos(p) < Pos(q)

(***************************************************************************)
(* C3  Ignore propagation: the selection holds no folder with an .ignore   *)
(* marker and no path below such a folder.                                 *)
(***************************************************************************)
C3_IgnorePropagation ==
    \A F \in dotIgnore : \A i \in 1..Len(selection) : ~IsPrefix(F, selection[i])

\* a compile over a snapshot whose folder B is ignored, with a pdf beside it
\* and files and a folder below it
C3_Witness ==
    /\ Merged
    /\ dotIgnore = {B_DIR}
    /\ {B_X_JPG, B_D_DIR, B_D_E_PDF} \subseteq dirs \cup files
    /\ A_PDF \in Range(selection)

(***************************************************************************)
(* C4  Include/exclude filtering: with a non-empty include list, every     *)
(* pdf or image file that is not dot-prefixed, has no ignored ancestor     *)
(* folder, matches some include pattern and no exclude pattern (by its     *)
(* path relative to the root) is selected; and no selected file matches    *)
(* an exclude pattern.                                                     *)
(***************************************************************************)
C4_IncludeExcludeFiltering ==
    LET rel(f) == PathStr(Tail(f))
        included(f) == \E i \in 1..Len(includes) : re_search(includes[i], rel(f))
        excluded(f) == \E i \in 1..Len(excludes) : re_search(excludes[i], rel(f))
        ignoredAbove(f) == \E F \in dotIgnore : IsPrefix(F, f)
    IN  (Selected /\ includes # <<>>) =>
           /\ \A f \in files :
                 ( /\ _is_pdf(f) \/ _is_img(f)
                   /\ ~IsDotName(name(f))
                   /\ ~ignoredAbove(f)
                   /\ included(f)
                   /\ ~excluded(f) ) => f \in Range(selection)
           /\ \A f \in files \cap Range(selection) : ~excluded(f)

(***************************************************************************)
(* C5  Pagination: the start page of every entry merge has processed is    *)
(* the sum of the page counts of the entries before it, folders counting   *)
(* as 0 pages.                                                             *)
(***************************************************************************)
C5_Pagination ==
    \A i \in 1..Len(tree) : Processed(i) => tree[i].page = PagesBefore(i)

\* the sequence folder, pdf of MaxPages pages, folder, image has been merged
C5_Witness ==
    /\ Merged
    /\ Len(tree) = 4
    /\ [i \in 1..4 |-> tree[i].type] = <<"folder", "pdf", "folder", "img">>
    /\ [i \in 1..4 |-> Pages(i)] = <<0, MaxPages, 0, 1>>
    /\ [i \in 1..4 |-> tree[i].page] = <<0, 0, MaxPages, MaxPages>>

(***************************************************************************)
(* C6  Empty-folder backward fill: after merge, a folder whose subtree     *)
(* puts no page into the output starts at the start page of the nearest    *)
(* later entry with a page count above 0, or at the final cumulative page  *)
(* count when there is none; its outline item targets that page.           *)
(***************************************************************************)
C6_EmptyFolderFill ==
    Merged =>
        \A i \in 1..Len(tree) :
            (tree[i].type = "folder" /\ WrittenFrom(Subtree(i)) = 0) =>
                LET later == {j \in (i + 1)..Len(tree) : Pages(j) > 0}
                    target == IF later = {} THEN page_index
                              ELSE tree[CHOOSE j \in later : \A k \in later : j <= k].page
                IN  /\ tree[i].page = target
                    /\ outlineRef[i] # 0 => outline[outlineRef[i]].page_number = target

\* past page 0: the empty folder D is followed by the image c.jpg outside it,
\* and the empty folder z is the last entry
C6_Witness ==
    /\ Merged
    /\ {B_D_DIR, C_JPG, Z_DIR} \subseteq Range(selection)
    /\ Subtree(EntryOf(B_D_DIR)) = {EntryOf(B_D_DIR)}
    /\ tree[EntryOf(B_D_DIR)].page > 0
    /\ tree[EntryOf(B_D_DIR)].page = tree[EntryOf(C_JPG)].page
    /\ EntryOf(Z_DIR) = Len(tree)
    /\ tree[EntryOf(Z_DIR)].page = page_index
    /\ tree[EntryOf(Z_DIR)].page > tree[EntryOf(B_D_DIR)].page
    /\ outline[outlineRef[EntryOf(Z_DIR)]].page_number = page_index

(***************************************************************************)
(* C7  A content unit that cannot be opened or converted is recorded with  *)
(* page count 0, does not advance the page cursor, gets no outline item,   *)
(* and the start page of every later entry is the number of pages          *)
(* inserted into the output before it.                                     *)
(***************************************************************************)
C7_UnreadableContent ==
    Merged =>
        \A i \in 1..Len(tree) :
            (tree[i].type \in {"pdf", "img"} /\ ~readable(tree[i].path)) =>
                /\ Pages(i) = 0
                /\ (IF i < Len(tree) THEN tree[i + 1].page ELSE page_index) = tree[i].page
                /\ outlineRef[i] = 0
                /\ \A j \in (i + 1)..Len(tree) : tree[j].page = WrittenFrom(1..(j - 1))

(***************************************************************************)
(* C8  Folder title marker: the outline item of a folder with a readable   *)
(* .title file is titled with the trimmed text of that file.               *)
(***************************************************************************)
C8_FolderTitle ==
    Merged =>
        \A i \in 1..Len(tree) :
            ( /\ tree[i].type = "folder"
              /\ tree[i].path \in DOMAIN dotTitle
              /\ dotTitle[tree[i].path].ok
              /\ outlineRef[i] # 0 ) =>
                outline[outlineRef[i]].title = strip(dotTitle[tree[i].path].text)

(***************************************************************************)
(* C9  Only-images suppression: after merge, a folder whose direct file    *)
(* children hold an image and no pdf has exactly one outline item, no      *)
(* image directly inside it has one, and each such image still advances    *)
(* the cursor by its page and, when it can be read, has its page in the    *)
(* output, the output's pages being in emission order.                     *)
(***************************************************************************)
C9_OnlyImages ==
    Merged =>
        /\ \A k \in 1..(Len(writerPages) - 1) :
              \/ EntryOf(writerPages[k][1]) < EntryOf(writerPages[k + 1][1])
              \/ /\ writerPages[k][1] = writerPages[k + 1][1]
                 /\ writerPages[k][2] < writerPages[k + 1][2]
        /\ Len(outline) = Cardinality({j \in 1..Len(tree) : outlineRef[j] # 0})
        /\ \A i \in 1..Len(tree) :
              LET F == tree[i].path
                  kids == {c \in files : parent(c) = F}
              IN  ( /\ tree[i].type = "folder"
                    /\ \E c \in kids : _is_img(c)
                    /\ ~ \E c \in kids : _is_pdf(c) ) =>
                      /\ outlineRef[i] \in 1..Len(outline)
                      /\ \A j \in 1..Len(tree) : outlineRef[j] = outlineRef[i] => j = i
                      /\ \A j \in 1..Len(tree) :
                            (tree[j].type = "img" /\ parent(tree[j].path) = F) =>
                               /\ outlineRef[j] = 0
                               /\ readable(tree[j].path) =>
                                     /\ WrittenFrom({j}) = 1
                                     /\ (IF j < Len(tree) THEN tree[j + 1].page ELSE page_index)
                                           = tree[j].page + 1

\* folder B holds only the image x.jpg, which follows the pages of a.pdf
C9_Witness ==
    /\ Merged
    /\ {A_PDF, B_X_JPG} \subseteq files
    /\ B_H_PDF \notin files
    /\ B_X_JPG \notin corrupt
    /\ A_PDF \notin corrupt
    /\ outlineRef[EntryOf(B_DIR)] # 0
    /\ outlineRef[EntryOf(B_X_JPG)] = 0
    /\ \E k \in 2..Len(writerPages) : writerPages[k] = <<B_X_JPG, 1>>

(***************************************************************************)
(* C10  Outline parent linkage: at every step of merge's loop, the outline *)
(* item created for an entry has as parent the item recorded for the       *)
(* entry's parent folder, created earlier; it has no parent only when no   *)
(* item is recorded for that folder, as for the traversal root; and the    *)
(* item of a folder is recorded before its children are processed.         *)
(***************************************************************************)
C10_OutlineParent ==
    \A i \in 1..Len(tree) :
        Processed(i) =>
            LET pf == parent(tree[i].path)
                ref == outlineRef[i]
            IN  /\ tree[i].type = "folder" =>
                      tree[i].path \in DOMAIN parents /\ parents[tree[i].path] = ref
                /\ tree[i].path # root =>
                      /\ pf \in DOMAIN parents
                      /\ EntryOf(pf) < i
                      /\ parents[pf] = outlineRef[EntryOf(pf)]
                /\ ref # 0 =>
                      /\ ref \in 1..Len(outline)
                      /\ outline[ref].parent = (IF pf \in DOMAIN parents THEN parents[pf] ELSE 0)
                      /\ outline[ref].parent < ref
                      /\ outline[ref].parent = 0 <=> tree[i].path = root

\* a pdf three folders deep has its item under D's, D's under B's, B's under
\* the root's, and the root's item has no parent
C10_Witness ==
    /\ Merged
    /\ B_D_E_PDF \in Range(selection)
    /\ outlineRef[EntryOf(B_D_E_PDF)] # 0
    /\ outline[outlineRef[EntryOf(B_D_E_PDF)]].parent = outlineRef[EntryOf(B_D_DIR)]
    /\ outline[outlineRef[EntryOf(B_D_DIR)]].parent = outlineRef[EntryOf(B_DIR)]
    /\ outline[outlineRef[EntryOf(B_DIR)]].parent = outlineRef[EntryOf(root)]
    /\ outlineRef[EntryOf(root)] # 0
    /\ outline[outlineRef[EntryOf(root)]].parent = 0

====
